---- MODULE Spec2Model ----
(***************************************************************************)
(* A model of bluepy's sensortag.py: the notification delegates            *)
(* (KeypressDelegate, SensorDelegate), the terminal renderer (render),     *)
(* the sensor drivers (SensorBase and its subclasses, the MPU9250 facades) *)
(* and the device registry and command-line driver (SensorTag, main).      *)
(***************************************************************************)
EXTENDS Integers, Sequences, FiniteSets, TLC

\* ------------------------------------------------------------------ bounds
\* Notifications delivered to the installed delegate in one behaviour.
MaxNotif == 3

\* ------------------------------------------------------------- Python values
\* Python's None.
None == "None"

\* a & b on non-negative integers.
RECURSIVE BitAnd(_, _)
BitAnd(a, b) ==
    IF a = 0 \/ b = 0 THEN 0
    ELSE ((a % 2) * (b % 2)) + 2 * BitAnd(a \div 2, b \div 2)

\* a & ~b on non-negative integers (Python's ~b is -b-1, all high bits set, so
\* the result keeps exactly the bits of a that b does not have).
RECURSIVE BitAndNot(_, _)
BitAndNot(a, b) ==
    IF a = 0 THEN 0
    ELSE ((a % 2) * (1 - (b % 2))) + 2 * BitAndNot(a \div 2, b \div 2)

\* a | b on non-negative integers.
RECURSIVE BitOr(_, _)
BitOr(a, b) ==
    IF a = 0 THEN b
    ELSE IF b = 0 THEN a
    ELSE (IF (a % 2) + (b % 2) > 0 THEN 1 ELSE 0) + 2 * BitOr(a \div 2, b \div 2)

\* struct.unpack("B", data): one unsigned byte; any other length raises struct.error.
UnpackB_ok(bytes) == Len(bytes) = 1
UnpackB(bytes) == bytes[1]

\* struct.unpack('<h', data): one little-endian signed 16-bit value; any other
\* length raises struct.error.
UnpackH_ok_truncating(bytes) == Len(bytes) >= 2
UnpackH_ok(bytes) == Len(bytes) = 2
UnpackH(bytes) ==
    LET u == bytes[1] + 256 * bytes[2]
    IN  IF u >= 32768 THEN u - 65536 ELSE u

\* ------------------------------------------------------------------- state
VARIABLES
    \* main: which delegate class was installed (tag.setDelegate)
    delegate,
    \* KeypressDelegate.lastVal
    lastVal,
    \* SensorDelegate.x, .y, .z, and which of the three attributes exist
    \* (__init__ assigns none of them; reading a missing one raises
    \* AttributeError)
    sd_x, sd_y, sd_z, sd_attrs,
    \* what the most recent handleNotification call did: the events it emitted
    \* in order, and the exception it raised ("none" when it returned)
    emitted, raised,
    \* history: lastVal before the most recent call, the masks handled so far by
    \* KeypressDelegate, the handles delivered so far to SensorDelegate, the last
    \* well-formed payload delivered per handle, all events emitted so far, and
    \* the handle and payload of the most recent call
    prevLastVal, masks, hnds, recv, events, lastHnd, lastData,
    \* history: the mask last handled by KeypressDelegate per channel, and the
    \* one last handled on the channel of the most recent call before that call
    chanLast, chanPrev,
    \* the handle the transport gave, in this session, to the notifications of
    \* each Gen3 role (x, y, z axis, button 1, button 2)
    assigned,
    \* render: isRaw, current_pos, last_pos, dict, the class-level lock (TRUE
    \* while locked), and the terminal: the row the cursor is physically on
    \* and the writes since the last moment no render call was writing
    isRaw, current_pos, last_pos, dict, lock, termRow, out,
    \* the threads calling render(): where each is in its call, the label it
    \* renders, and the number of render calls started so far
    pc, arg, started,
    \* history: the labels in the order getLine first saw them, and the
    \* terminal row each label's text was first written on
    order, firstRow,
    \* the driver object under test: its class, and SensorBase's service, ctrl
    \* and data (NoneRef, or the resolution that produced the bound object),
    \* char_descr (the descriptor it names, "" while the attribute does not
    \* exist), the other attributes assigned outside __init__ that exist
    \* (calChr; cal for c1_s, c2_s, sensPoly, offsPoly), and
    \* MovementSensorMPU9250.ctrlBits
    kind, service, ctrl, data, char_descr, drvAttrs, ctrlBits,
    \* what the most recent driver call was (enable, disable, read), through
    \* which facade, the transport writes it made in order (how many of them
    \* inside SensorBase.enable), the exception it raised, whether it returned
    \* a reading and whether it ran the calibration sequence
    lastCall, lastWho, writes, nBaseWrites, drvRaised, result, calInCall,
    \* history: resolutions made per endpoint and the enable call that bound
    \* it, calls and enable calls so far, how the first enable call ended, the
    \* drivers and facades whose enable completed, calibration loads so far
    \* and whether the transport has failed in any call so far
    nres, boundAt, nCalls, nEnable, firstEnable, enabledOk, calLoads,
    transportFailed,
    \* the value most recently written to the control endpoint (-1: none yet)
    \* and each facade's own most recent enable or disable call
    ctrlWritten, facadeLast,
    \* the length of the frame the most recent read() got from the transport
    frameLen,
    \* tag.lightmeter.read(): the frame the most recent call got, the lux it
    \* returned in hundredths (-1: none) and the exception it raised ("idle"
    \* before the first call, "none" when it returned)
    lightFrame, lightLux, lightRaised,
    \* SensorTag and main: the services discovered at connect, tag.version, what
    \* each role's attribute of the tag holds ("driver", "None", or "missing"
    \* when __init__ never assigns it), the roles selected on the command line,
    \* arg.count, where main is (mainPc, and idx: the role of the enabling
    \* section or of the poll cycle it is at), main's counter, and the
    \* exception that ended main ("none" while it runs)
    svcs, version, tagAttr, selected, count, mainPc, idx, counter, mainRaised,
    \* history: the roles warned about, the roles whose driver was enabled,
    \* the roles read (ever, and in the current cycle in order), the read
    \* cycles completed, the waits for notifications, and what main did from
    \* the end of the loop on
    warned, enabledRoles, readRoles, cycleReads, nCycles, nWaits, exitLog

dispatchVars == <<delegate, lastVal, sd_x, sd_y, sd_z, sd_attrs, emitted, raised,
                  prevLastVal, masks, hnds, recv, events, lastHnd, lastData,
                  chanLast, chanPrev, assigned>>
renderVars == <<isRaw, current_pos, last_pos, dict, lock, termRow, out,
                pc, arg, started, order, firstRow>>
sensorVars == <<kind, service, ctrl, data, char_descr, drvAttrs, ctrlBits, lastCall, lastWho,
                writes, nBaseWrites, drvRaised, result, calInCall, nres, boundAt,
                nCalls, nEnable, firstEnable, enabledOk, calLoads, transportFailed,
                ctrlWritten, facadeLast, frameLen>>
opticalVars == <<lightFrame, lightLux, lightRaised>>
driverVars == <<sensorVars, opticalVars>>
mainVars == <<svcs, version, tagAttr, selected, count, mainPc, idx, counter,
              mainRaised, warned, enabledRoles, readRoles, cycleReads, nCycles,
              nWaits, exitLog>>
vars == <<dispatchVars, renderVars, driverVars, mainVars>>

\* ================================================================== render
\* Threads that call render() concurrently, and render calls per behaviour.
NumThreads == 2
MaxRenders == 3
Threads == 1 .. NumThreads

\* The labels the program renders (main's poll loop, SensorDelegate, the exit
\* marker).
Labels == {"Temp: ", "Accelerometer: ", "Key pressed: ", "done"}

\* One write to the terminal: a relative cursor move down (ESC[nE) or up
\* (ESC[nF), a newline, a clear-line (ESC[K), or text; by is the writing thread.
Tok(op, n, s, by) == [op |-> op, n |-> n, s |-> s, by |-> by]

\* The rows the cursor moves by one write (no scrolling; text ends in '\r' in
\* dashboard mode and stays on its row).
RowDelta(tok) ==
    CASE tok.op = "E"  -> tok.n
      [] tok.op = "F"  -> 0 - tok.n
      [] tok.op = "NL" -> 1
      [] OTHER         -> 0

\* The renderer's fields and the terminal as one record, for the methods below.
RS == [current_pos |-> current_pos, last_pos |-> last_pos, dict |-> dict,
       termRow |-> termRow, out |-> out, order |-> order,
       firstRow |-> firstRow]

SetRS(r) ==
    /\ current_pos' = r.current_pos
    /\ last_pos' = r.last_pos
    /\ dict' = r.dict
    /\ termRow' = r.termRow
    /\ out' = r.out
    /\ order' = r.order
    /\ firstRow' = r.firstRow

\* self.dict[label] = line
DictPut(d, label, line) ==
    [l \in (DOMAIN d) \cup {label} |-> IF l = label THEN line ELSE d[l]]

\* print(...): the write reaches the terminal, on the row the cursor is on.
Emit(rs, tok) ==
    [rs EXCEPT !.out = Append(@, tok), !.termRow = @ + RowDelta(tok),
               !.firstRow = IF tok.op = "TXT" /\ tok.s \notin DOMAIN @
                            THEN DictPut(@, tok.s, rs.termRow)
                            ELSE @]

\* render.moveCursor
moveCursor_untracked(rs, line, by) ==
    IF rs.current_pos < line THEN Emit(rs, Tok("E", line - rs.current_pos, "", by))
    ELSE IF rs.current_pos > line THEN Emit(rs, Tok("F", rs.current_pos - line, "", by))
    ELSE rs
moveCursor(rs, line, by) ==
    LET r1 == IF rs.current_pos < line
              THEN Emit(rs, Tok("E", line - rs.current_pos, "", by))
              ELSE rs
        r2 == IF r1.current_pos > line
              THEN Emit(r1, Tok("F", r1.current_pos - line, "", by))
              ELSE r1
    IN  [r2 EXCEPT !.current_pos = line]

\* The line index given to a label not in dict yet (self.last_pos + 1).
NewLineIndex_stale(lp) == lp
NewLineIndex(lp) == lp + 1

\* render.getLine, up to its first terminal write: a label not in dict yet is
\* given the next line.
AssignLine(rs, label) ==
    IF label \in DOMAIN rs.dict THEN rs
    ELSE
        LET r1 == [rs EXCEPT !.last_pos = NewLineIndex(@)]
        IN  [r1 EXCEPT !.dict = DictPut(@, label, r1.last_pos),
                       !.order = Append(@, label)]

\* render.getLine: the renderer after the call; the line it returns is
\* dict[label] of the result.
getLine(rs, label, by) ==
    IF label \in DOMAIN rs.dict THEN rs
    ELSE
        LET saved_pos == rs.current_pos
            r2 == AssignLine(rs, label)
            r3 == IF r2.last_pos > 0 THEN moveCursor(r2, r2.last_pos, by) ELSE r2
            r4 == Emit(Emit(r3, Tok("NL", 0, "", by)), Tok("F", 1, "", by))
            r5 == IF r4.last_pos > 0 THEN moveCursor(r4, saved_pos, by) ELSE r4
        IN  Emit(r5, Tok("NL", 0, "", by))

\* render.printDashboard between acquire and release, first half:
\* self.moveCursor(self.getLine(label))
DashMove(rs, label, by) ==
    LET r == getLine(rs, label, by)
    IN  moveCursor(r, r.dict[label], by)

\* render.printDashboard, second half: clear the line, print label, data, unit
\* with end='\r'.
DashPrint(rs, label, by) ==
    Emit(Emit(rs, Tok("K", 0, "", by)), Tok("TXT", 0, label, by))

\* print(label, data) of raw mode: print() writes its arguments one by one,
\* then the newline.
RawLabel(rs, label, by) == Emit(rs, Tok("TXT", 0, label, by))
RawData(rs, by) == Emit(Emit(rs, Tok("DATA", 0, "", by)), Tok("NL", 0, "", by))

\* render.render called and run to its end by one thread with nobody else
\* rendering (the delegate's callback on the main thread).
renderWhole(rs, raw, label, by) ==
    LET r0 == [rs EXCEPT !.out = <<>>]
    IN  IF raw THEN RawData(RawLabel(r0, label, by), by)
        ELSE DashPrint(DashMove(r0, label, by), label, by)

\* render.__init__
InitRenderer(raw) ==
    /\ isRaw = raw
    /\ current_pos = 0
    /\ last_pos = -1
    /\ dict = << >>
    /\ lock = FALSE
    /\ termRow = 0
    /\ out = << >>
    /\ pc = [t \in Threads |-> "idle"]
    /\ arg = [t \in Threads |-> None]
    /\ started = 0
    /\ order = << >>
    /\ firstRow = << >>

\* render.render, entry: raw mode prints at once, dashboard mode goes to
\* printDashboard and waits for the lock.
RenderCall(t, label) ==
    /\ pc[t] = "idle"
    /\ UNCHANGED <<dispatchVars, driverVars, mainVars>>
    /\ started < MaxRenders
    /\ started' = started + 1
    /\ arg' = [arg EXCEPT ![t] = label]
    /\ pc' = [pc EXCEPT ![t] = IF isRaw THEN "raw" ELSE "acquire"]
    /\ UNCHANGED <<isRaw, current_pos, last_pos, dict, lock, termRow, out, order, firstRow>>

\* raw mode: print(label, data) writes the label ...
RawWriteLabel(t) ==
    /\ pc[t] = "raw"
    /\ UNCHANGED <<dispatchVars, driverVars, mainVars>>
    /\ SetRS(RawLabel(IF \E u \in Threads : pc[u] = "rawdata"
                       THEN RS ELSE [RS EXCEPT !.out = << >>], arg[t], t))
    /\ pc' = [pc EXCEPT ![t] = "rawdata"]
    /\ UNCHANGED <<isRaw, lock, arg, started>>

\* ... and then the data and the newline.
RawWriteData(t) ==
    /\ pc[t] = "rawdata"
    /\ UNCHANGED <<dispatchVars, driverVars, mainVars>>
    /\ SetRS(RawData(RS, t))
    /\ pc' = [pc EXCEPT ![t] = "idle"]
    /\ UNCHANGED <<isRaw, lock, arg, started>>

\* threading.Lock.acquire() returns only when the lock is free.
LockFree_ignored(l) == TRUE
LockFree(l) == l = FALSE

\* self.lock.acquire()
Acquire(t) ==
    /\ pc[t] = "acquire"
    /\ UNCHANGED <<dispatchVars, driverVars, mainVars>>
    /\ LockFree(lock)
    /\ lock' = TRUE
    /\ out' = << >>
    /\ pc' = [pc EXCEPT ![t] = "move"]
    /\ UNCHANGED <<isRaw, current_pos, last_pos, dict, termRow, arg, started, order, firstRow>>

\* self.moveCursor(self.getLine(label))
MoveStep(t) ==
    /\ pc[t] = "move"
    /\ UNCHANGED <<dispatchVars, driverVars, mainVars>>
    /\ SetRS(DashMove(RS, arg[t], t))
    /\ pc' = [pc EXCEPT ![t] = "print"]
    /\ UNCHANGED <<isRaw, lock, arg, started>>

\* print('\033[K'); print(label, data, unit, end='\r')
PrintStep(t) ==
    /\ pc[t] = "print"
    /\ UNCHANGED <<dispatchVars, driverVars, mainVars>>
    /\ SetRS(DashPrint(RS, arg[t], t))
    /\ pc' = [pc EXCEPT ![t] = "release"]
    /\ UNCHANGED <<isRaw, lock, arg, started>>

\* self.lock.release()
Release(t) ==
    /\ pc[t] = "release"
    /\ UNCHANGED <<dispatchVars, driverVars, mainVars>>
    /\ lock' = FALSE
    /\ pc' = [pc EXCEPT ![t] = "idle"]
    /\ UNCHANGED <<isRaw, current_pos, last_pos, dict, termRow, out, arg, started, order, firstRow>>

\* self.moveCursor(self.getLine(label)) when its first terminal write raises
\* (print() on a closed or broken stdout): the line is assigned already, the
\* cursor is not moved, and the exception leaves printDashboard past its
\* lock.release().
MoveFails(t) ==
    /\ pc[t] = "move"
    /\ UNCHANGED <<dispatchVars, driverVars, mainVars>>
    /\ Len(DashMove(RS, arg[t], t).out) > Len(out)
    /\ SetRS(AssignLine(RS, arg[t]))
    /\ pc' = [pc EXCEPT ![t] = "idle"]
    /\ UNCHANGED <<isRaw, lock, arg, started>>

\* print('\033[K') raises: nothing is written, and the exception leaves
\* printDashboard past its lock.release().
PrintFails(t) ==
    /\ pc[t] = "print"
    /\ UNCHANGED <<dispatchVars, driverVars, mainVars>>
    /\ pc' = [pc EXCEPT ![t] = "idle"]
    /\ UNCHANGED <<isRaw, current_pos, last_pos, dict, lock, termRow, out, arg,
                   started, order, firstRow>>


\* =============================================================== delegates
\* KeypressDelegate.BUTTON_L, BUTTON_R, ALL_BUTTONS
BUTTON_L == 2
BUTTON_R == 1
ALL_BUTTONS == BitOr(BUTTON_L, BUTTON_R)
\* SensorDelegate.BUTTON_HOLD and the state bytes 0x01 (down), 0x00 (up)
BUTTON_HOLD == 177
\* The handles SensorDelegate.handleNotification compares hnd with.
HND_X == 110
HND_Y == 114
HND_Z == 118
HND_BUT1 == 90
HND_BUT2 == 94
\* A handle that is none of them.

\* The handles and payloads the transport delivers: one-byte payloads (button
\* masks and state bytes), two-byte payloads (axis values 1 and -1) and a
\* three-byte payload, too long for every handle.
Handles == {HND_X, HND_Y, HND_Z, HND_BUT1, HND_BUT2, 42}
\* The Gen3 roles whose notifications reach a SensorDelegate, the handles
\* SensorDelegate.handleNotification expects them on, and the assignments
\* of handles to roles a session's transport may make: the expected one, a
\* permutation of it, and one with the x axis on another handle.
ChannelRoles == {"x", "y", "z", "but1", "but2"}
FixedChannels ==
    [r \in ChannelRoles |->
        CASE r = "x" -> HND_X [] r = "y" -> HND_Y [] r = "z" -> HND_Z
          [] r = "but1" -> HND_BUT1 [] r = "but2" -> HND_BUT2]
Assignments ==
    {FixedChannels,
     [r \in ChannelRoles |->
        CASE r = "x" -> HND_Y [] r = "y" -> HND_Z [] r = "z" -> HND_X
          [] r = "but1" -> HND_BUT2 [] r = "but2" -> HND_BUT1],
     [FixedChannels EXCEPT !["x"] = 42]}

\* The channels whose notifications reach a KeypressDelegate: two of them.
KeyHandles == {HND_BUT1, 42}
Payloads == {<<0>>, <<1>>, <<2>>, <<3>>, <<6>>, <<177>>, <<1, 0>>, <<255, 255>>,
             <<1, 0, 0>>}

\* An emitted high-level event: a button event carries the button(s), a vector
\* event the three axis values.
Event(type, but, vx, vy, vz) ==
    [type |-> type, but |-> but, x |-> vx, y |-> vy, z |-> vz]
ButtonEvent(type, but) == Event(type, but, 0, 0, 0)
VectorEvent(vx, vy, vz) == Event("VEC", 0, vx, vy, vz)

\* KeypressDelegate.handleNotification: down = (val & ~self.lastVal) & ALL_BUTTONS
KeyDown_nomask(val, last) == BitAndNot(val, last)
KeyDown(val, last) == BitAnd(BitAndNot(val, last), ALL_BUTTONS)

\* KeypressDelegate.handleNotification: up = (~val & self.lastVal) & ALL_BUTTONS
KeyUp(val, last) == BitAnd(BitAndNot(last, val), ALL_BUTTONS)

\* The events one KeypressDelegate.handleNotification call emits, in order:
\* onButtonDown first, then onButtonUp.
KeyEvents(val, last) ==
    (IF KeyDown(val, last) # 0 THEN <<ButtonEvent("DOWN", KeyDown(val, last))>> ELSE << >>)
    \o (IF KeyUp(val, last) # 0 THEN <<ButtonEvent("UP", KeyUp(val, last))>> ELSE << >>)

\* KeypressDelegate.__init__ / SensorDelegate.__init__ (neither assigns x, y, z)
\* in a session whose transport made the assignment a.
InitDelegateIn(d, a) ==
    /\ delegate = d
    /\ lastVal = 0
    /\ sd_x = 0 /\ sd_y = 0 /\ sd_z = 0
    /\ sd_attrs = {}
    /\ emitted = << >>
    /\ raised = "none"
    /\ prevLastVal = 0
    /\ masks = << >>
    /\ hnds = << >>
    /\ recv = [h \in {HND_X, HND_Y, HND_Z} |-> << >>]
    /\ events = << >>
    /\ lastHnd = 0
    /\ chanLast = [h \in KeyHandles |-> 0]
    /\ chanPrev = 0
    /\ assigned = a
    /\ lastData = << >>

\* The delegate in a session with the handles the code expects.
InitDelegate(d) == InitDelegateIn(d, FixedChannels)

\* What both delegates' actions record of a call.
Delivered(hnd, bytes) ==
    /\ Len(masks) + Len(hnds) < MaxNotif
    /\ lastHnd' = hnd
    /\ lastData' = bytes

\* KeypressDelegate.handleNotification(hnd, data); onButtonDown and onButtonUp
\* print one line each.
KeypressDelegate_handleNotification(hnd, bytes) ==
    /\ delegate = "KeypressDelegate"
    /\ hnd \in KeyHandles
    /\ Delivered(hnd, bytes)
    /\ prevLastVal' = lastVal
    /\ chanPrev' = chanLast[hnd]
    /\ chanLast' = IF UnpackB_ok(bytes)
                   THEN [chanLast EXCEPT ![hnd] = UnpackB(bytes)]
                   ELSE chanLast
    /\ masks' = Append(masks, bytes)
    /\ IF ~UnpackB_ok(bytes)
       THEN /\ raised' = "struct.error"
            /\ emitted' = << >>
            /\ UNCHANGED <<lastVal, events, termRow>>
       ELSE LET val == UnpackB(bytes)
                evs == KeyEvents(val, lastVal)
            IN  /\ raised' = "none"
                /\ emitted' = evs
                /\ events' = events \o evs
                /\ termRow' = termRow + Len(evs)
                /\ lastVal' = val
    /\ UNCHANGED <<delegate, sd_x, sd_y, sd_z, sd_attrs, hnds, recv, assigned>>
    /\ UNCHANGED <<driverVars, mainVars>>
    /\ UNCHANGED <<isRaw, current_pos, last_pos, dict, lock, out, pc, arg, started, order, firstRow>>

\* SensorDelegate.handleNotification, the keypress part: but is 0x01 for
\* handle 90, 0x02 for handle 94, else 0x00.
ButtonOf(hnd) ==
    IF hnd = HND_BUT2 THEN BUTTON_L
    ELSE IF hnd = HND_BUT1 THEN BUTTON_R
    ELSE 0

\* The three tests of val; each one that matches calls its handler.
StateEvents_lowbit(but, val) ==
    (IF val % 2 = 1 THEN <<ButtonEvent("DOWN", but)>> ELSE << >>)
    \o (IF val = 0 THEN <<ButtonEvent("UP", but)>> ELSE << >>)
    \o (IF val = BUTTON_HOLD THEN <<ButtonEvent("HOLD", but)>> ELSE << >>)
StateEvents(but, val) ==
    (IF val = 1 THEN <<ButtonEvent("DOWN", but)>> ELSE << >>)
    \o (IF val = 0 THEN <<ButtonEvent("UP", but)>> ELSE << >>)
    \o (IF val = BUTTON_HOLD THEN <<ButtonEvent("HOLD", but)>> ELSE << >>)

\* The z branch renders str(self.x), str(self.y), str(self.z): it needs the
\* attributes x and y to exist.
VectorReady(attrs) == {"x", "y"} \subseteq attrs

\* SensorDelegate.handleNotification(hnd, data). Every emitted event is one
\* rnd.render call, run to its end on the calling thread.
SensorDelegate_handleNotification(hnd, bytes) ==
    /\ delegate = "SensorDelegate"
    /\ Delivered(hnd, bytes)
    /\ hnds' = Append(hnds, hnd)
    /\ UNCHANGED <<delegate, lastVal, prevLastVal, masks, chanLast, chanPrev, assigned>>
    /\ UNCHANGED <<driverVars, mainVars>>
    /\ UNCHANGED <<isRaw, lock, pc, arg, started>>
    /\ CASE hnd \in {HND_X, HND_Y, HND_Z} /\ ~UnpackH_ok(bytes) ->
              /\ raised' = "struct.error"
              /\ emitted' = << >>
              /\ UNCHANGED <<sd_x, sd_y, sd_z, sd_attrs, recv, events>>
              /\ UNCHANGED <<current_pos, last_pos, dict, termRow, out, order, firstRow>>
         [] hnd = HND_X /\ UnpackH_ok(bytes) ->
              /\ sd_x' = UnpackH(bytes)
              /\ sd_attrs' = sd_attrs \cup {"x"}
              /\ recv' = [recv EXCEPT ![hnd] = bytes]
              /\ raised' = "none"
              /\ emitted' = << >>
              /\ UNCHANGED <<sd_y, sd_z, events>>
              /\ UNCHANGED <<current_pos, last_pos, dict, termRow, out, order, firstRow>>
         [] hnd = HND_Y /\ UnpackH_ok(bytes) ->
              /\ sd_y' = UnpackH(bytes)
              /\ sd_attrs' = sd_attrs \cup {"y"}
              /\ recv' = [recv EXCEPT ![hnd] = bytes]
              /\ raised' = "none"
              /\ emitted' = << >>
              /\ UNCHANGED <<sd_x, sd_z, events>>
              /\ UNCHANGED <<current_pos, last_pos, dict, termRow, out, order, firstRow>>
         [] hnd = HND_Z /\ UnpackH_ok(bytes) ->
              /\ sd_z' = UnpackH(bytes)
              /\ sd_attrs' = sd_attrs \cup {"z"}
              /\ recv' = [recv EXCEPT ![hnd] = bytes]
              /\ UNCHANGED <<sd_x, sd_y>>
              /\ IF VectorReady(sd_attrs)
                 THEN LET ev == VectorEvent(sd_x, sd_y, UnpackH(bytes))
                      IN  /\ raised' = "none"
                          /\ emitted' = <<ev>>
                          /\ events' = Append(events, ev)
                          /\ SetRS(renderWhole(RS, isRaw, "Accelerometer: ", 1))
                 ELSE /\ raised' = "AttributeError"
                      /\ emitted' = << >>
                      /\ UNCHANGED <<events, current_pos, last_pos, dict, termRow, out, order, firstRow>>
         [] ButtonOf(hnd) # 0 /\ ~UnpackB_ok(bytes) ->
              /\ raised' = "struct.error"
              /\ emitted' = << >>
              /\ UNCHANGED <<sd_x, sd_y, sd_z, sd_attrs, recv, events>>
              /\ UNCHANGED <<current_pos, last_pos, dict, termRow, out, order, firstRow>>
         [] ButtonOf(hnd) # 0 /\ UnpackB_ok(bytes) ->
              LET evs == StateEvents(ButtonOf(hnd), UnpackB(bytes))
              IN  /\ raised' = "none"
                  /\ emitted' = evs
                  /\ events' = events \o evs
                  /\ UNCHANGED <<sd_x, sd_y, sd_z, sd_attrs, recv>>
                  /\ IF evs = << >>
                     THEN UNCHANGED <<current_pos, last_pos, dict, termRow, out, order, firstRow>>
                     ELSE SetRS(renderWhole(RS, isRaw, "Key pressed: ", 1))
         [] OTHER ->
              /\ raised' = "none"
              /\ emitted' = << >>
              /\ UNCHANGED <<sd_x, sd_y, sd_z, sd_attrs, recv, events>>
              /\ UNCHANGED <<current_pos, last_pos, dict, termRow, out, order, firstRow>>


\* ================================================================= drivers
\* Driver calls (enable, disable, read) in one behaviour.
MaxCalls == 3

\* self.service = None, self.ctrl = None, self.data = None
NoneRef == 0

\* The driver classes, and the callers of a driver: the three facades of the
\* shared MovementSensorMPU9250, the driver itself otherwise.
Kinds == {"IRTemperatureSensor", "BatterySensor", "BarometerSensor",
          "MovementSensorMPU9250", "AccelerometerSensorADXL362",
          "KeypressSensor", "KeypressSensorCC1352R"}
Facades == {"gyroscope", "accelerometer", "magnetometer"}
Callers(k) == IF k = "MovementSensorMPU9250" THEN Facades ELSE {"self"}

\* The class attribute sensorOn as the bytes written, << >> for None:
\* SensorBase.sensorOn is struct.pack("B", 0x01) and
\* AccelerometerSensorADXL362 repeats it; BatterySensor, BarometerSensor,
\* MovementSensorMPU9250 and KeypressSensorCC1352R set None; KeypressSensor
\* inherits SensorBase's.
sensorOn(k) ==
    IF k \in {"IRTemperatureSensor", "AccelerometerSensorADXL362", "KeypressSensor"}
    THEN <<1>>
    ELSE << >>
\* SensorBase.sensorOff
sensorOff == <<0>>

\* MovementSensorMPU9250's bit masks
GYRO_XYZ == 7
ACCEL_XYZ == 56
MAG_XYZ == 64
ACCEL_RANGE_4G == 256
\* The bits each facade passes to the shared sensor's enable and disable.
FacadeBits(who) ==
    CASE who = "gyroscope"     -> GYRO_XYZ
      [] who = "accelerometer" -> BitOr(ACCEL_XYZ, ACCEL_RANGE_4G)
      [] who = "magnetometer"  -> MAG_XYZ
      [] OTHER                 -> 0

\* struct.pack("<H", v): two bytes, low byte first.
PackH(v) == <<v % 256, (v \div 256) % 256>>

\* struct.unpack of what PackH (or struct.pack("B", v)) packed: the value a
\* written payload carries.
PayloadValue(payload) ==
    IF Len(payload) = 0 THEN 0
    ELSE IF Len(payload) = 1 THEN payload[1]
    ELSE payload[1] + 256 * payload[2]

\* The value the control endpoint holds after the writes ws, cur before them.
RECURSIVE CtrlAfter(_, _)
CtrlAfter(ws, cur) ==
    IF ws = << >> THEN cur
    ELSE CtrlAfter(Tail(ws), IF Head(ws).to = "ctrl"
                             THEN PayloadValue(Head(ws).payload)
                             ELSE cur)

\* The transport operation of a call, counted from 1, that raises
\* BTLEException; 0 and numbers beyond the call's last operation: none does.
FailPoints == 0 .. 10

\* The driver's fields and the record of the call in progress as one record.
DS == [service |-> service, ctrl |-> ctrl, data |-> data,
       char_descr |-> char_descr, attrs |-> drvAttrs, ctrlBits |-> ctrlBits,
       writes |-> << >>, nBaseWrites |-> 0, raised |-> "none",
       result |-> "none", calInCall |-> 0, ops |-> 0,
       nres |-> nres, boundAt |-> boundAt, enableNo |-> nEnable + 1,
       calLoads |-> calLoads]

SetDS(d) ==
    /\ service' = d.service
    /\ ctrl' = d.ctrl
    /\ data' = d.data
    /\ char_descr' = d.char_descr
    /\ drvAttrs' = d.attrs
    /\ ctrlBits' = d.ctrlBits
    /\ writes' = d.writes
    /\ nBaseWrites' = d.nBaseWrites
    /\ drvRaised' = d.raised
    /\ result' = d.result
    /\ calInCall' = d.calInCall
    /\ nres' = d.nres
    /\ boundAt' = d.boundAt
    /\ calLoads' = d.calLoads
    /\ transportFailed' = (transportFailed \/ d.raised = "BTLEException")
    /\ ctrlWritten' = CtrlAfter(d.writes, ctrlWritten)

\* The call has not raised so far.
Ok(d) == d.raised = "none"

\* One transport operation: it raises if it is the failing one, else the call
\* goes on as dNext.
Try(d, failAt, dNext) ==
    IF ~Ok(d) THEN d
    ELSE IF d.ops + 1 = failAt
         THEN [d EXCEPT !.ops = @ + 1, !.raised = "BTLEException"]
         ELSE [dNext EXCEPT !.ops = d.ops + 1]

\* A Python exception raised by the statement itself.
PyRaise(d, exc) == IF Ok(d) THEN [d EXCEPT !.raised = exc] ELSE d

\* A transport write as the call records it.
Wr(to, payload, ack) == [to |-> to, payload |-> payload, ack |-> ack]

\* getServiceByUUID / getCharacteristics(...)[0]: the endpoint is bound to what
\* this resolution returns.
Resolve(d, e) ==
    [d EXCEPT ![e] = d.nres[e] + 1,
              !.nres = [@ EXCEPT ![e] = @ + 1],
              !.boundAt = [@ EXCEPT ![e] = d.enableNo]]

\* SensorBase.enable: "if self.service is None:" (and the same for ctrl, data)
NeedsResolve_always(ref) == TRUE
NeedsResolve(ref) == ref = NoneRef

Bind(d, e, failAt) ==
    IF Ok(d) /\ NeedsResolve(d[e]) THEN Try(d, failAt, Resolve(d, e)) ELSE d

\* <object>.write(payload, withResponse)
Write(d, to, payload, ack, failAt) ==
    Try(d, failAt, [d EXCEPT !.writes = Append(@, Wr(to, payload, ack))])

\* self.ctrl.write(...): AttributeError while self.ctrl is None
WriteCtrl(d, payload, ack, failAt) ==
    IF ~Ok(d) THEN d
    ELSE IF d.ctrl = NoneRef THEN PyRaise(d, "AttributeError")
    ELSE Write(d, "ctrl", payload, ack, failAt)

\* SensorBase.enable: "if self.sensorOn is not None:"
HasPayload_never(k) == FALSE
HasPayload(k) == sensorOn(k) # << >>

\* SensorBase.enable
SensorBase_enable(d, k, failAt) ==
    LET d1 == Bind(d, "service", failAt)
        d2 == Bind(d1, "ctrl", failAt)
        d3 == Bind(d2, "data", failAt)
        d4 == IF Ok(d3) /\ HasPayload(k)
              THEN WriteCtrl(d3, sensorOn(k), TRUE, failAt)
              ELSE d3
    IN  [d4 EXCEPT !.nBaseWrites = Len(d4.writes)]

\* SensorBase.disable
SensorBase_disable(d, failAt) ==
    IF d.ctrl # NoneRef THEN Write(d, "ctrl", sensorOff, FALSE, failAt) ELSE d

\* self.data.read(): AttributeError while self.data is None
DataBound(ref) == ref # NoneRef

DataRead(d, failAt) ==
    IF ~Ok(d) THEN d
    ELSE IF ~DataBound(d.data) THEN PyRaise(d, "AttributeError")
    ELSE Try(d, failAt, [d EXCEPT !.result = "reading"])

\* self.char_descr = self.service.getDescriptors(forUUID=0x2902)[i];
\* self.char_descr.write(struct.pack('<bb', b, 0x00), True)
Descriptor(d, name, b, failAt) ==
    LET d1 == Try(d, failAt, [d EXCEPT !.char_descr = name])
    IN  Write(d1, name, <<b, 0>>, TRUE, failAt)

\* BarometerSensor.enable, the calibration sequence: the mode-switch write
\* 0x02, the read of the calibration characteristic, the coefficients.
Calibrate_once(d, failAt) ==
    IF "cal" \in d.attrs THEN d
    ELSE LET d1 == WriteCtrl(d, <<2>>, TRUE, failAt)
             d2 == Try(d1, failAt, d1)
         IN  IF Ok(d2)
             THEN [d2 EXCEPT !.attrs = @ \cup {"cal"},
                             !.calLoads = @ + 1,
                             !.calInCall = @ + 1]
             ELSE d2
Calibrate(d, failAt) ==
    LET d1 == WriteCtrl(d, <<2>>, TRUE, failAt)
        d2 == Try(d1, failAt, d1)
    IN  IF Ok(d2)
        THEN [d2 EXCEPT !.attrs = @ \cup {"cal"},
                        !.calLoads = @ + 1,
                        !.calInCall = @ + 1]
        ELSE d2

\* BarometerSensor.enable
BarometerSensor_enable(d, k, failAt) ==
    LET d1 == SensorBase_enable(d, k, failAt)
        d2 == Try(d1, failAt, [d1 EXCEPT !.attrs = @ \cup {"calChr"}])
        d3 == Calibrate(d2, failAt)
    IN  WriteCtrl(d3, <<1>>, TRUE, failAt)

\* The frame lengths the transport may return to a read(): the declared
\* widths, and lengths shorter and longer than each.
FrameLens == {0, 1, 3, 4, 5, 18, 19}

\* The width a class's read() decodes: struct.unpack('<hh') and
\* struct.unpack('<hH') take 4 bytes, ord() 1 byte,
\* struct.unpack("<hhhhhhhhh") 18 bytes; AccelerometerSensorADXL362 and the
\* keypress classes inherit SensorBase.read, which returns the bytes as they
\* are (width 0: no decode).
Width(k) ==
    CASE k \in {"IRTemperatureSensor", "BarometerSensor"} -> 4
      [] k = "BatterySensor" -> 1
      [] k = "MovementSensorMPU9250" -> 18
      [] OTHER -> 0

\* struct.unpack(fmt, frame) and ord(frame) accept a frame of exactly the
\* width.
FrameFits(k, flen) == flen = Width(k)

\* The decode of the frame a read() got: struct.error (TypeError from ord)
\* unless the frame fits.
Decode(d, k, flen) ==
    IF Ok(d) /\ Width(k) # 0 /\ ~FrameFits(k, flen)
    THEN [PyRaise(d, IF k = "BatterySensor" THEN "TypeError" ELSE "struct.error")
            EXCEPT !.result = "none"]
    ELSE d

\* BarometerSensor.read uses self.c1_s, self.c2_s, self.sensPoly and
\* self.offsPoly: the attributes exist once enable has assigned them.
HasCoefficients_always(attrs) == TRUE
HasCoefficients(attrs) == "cal" \in attrs

\* BarometerSensor.read: the decode reads self.c1_s, self.c2_s, self.sensPoly
\* and self.offsPoly, which only enable assigns.
BarometerSensor_read(d, failAt, flen) ==
    LET d1 == Decode(DataRead(d, failAt), "BarometerSensor", flen)
    IN  IF Ok(d1) /\ ~HasCoefficients(d1.attrs)
        THEN [PyRaise(d1, "AttributeError") EXCEPT !.result = "none"]
        ELSE d1

\* MovementSensorMPU9250.enable(bits)
MovementSensorMPU9250_enable(d, k, bits, failAt) ==
    LET d1 == SensorBase_enable(d, k, failAt)
        d2 == IF Ok(d1) THEN [d1 EXCEPT !.ctrlBits = BitOr(@, bits)] ELSE d1
    IN  WriteCtrl(d2, PackH(d2.ctrlBits), FALSE, failAt)

\* MovementSensorMPU9250.disable: "self.ctrlBits &= ~bits"
ClearBits_all(cur, bits) == 0
ClearBits(cur, bits) == BitAndNot(cur, bits)

\* MovementSensorMPU9250.disable(bits)
MovementSensorMPU9250_disable(d, bits, failAt) ==
    LET d1 == [d EXCEPT !.ctrlBits = ClearBits(@, bits)]
    IN  WriteCtrl(d1, PackH(d1.ctrlBits), FALSE, failAt)

\* AccelerometerSensorADXL362.enable
AccelerometerSensorADXL362_enable(d, k, failAt) ==
    LET d1 == SensorBase_enable(d, k, failAt)
        d2 == Descriptor(d1, "descr0", 1, failAt)
        d3 == Descriptor(d2, "descr1", 1, failAt)
    IN  Descriptor(d3, "descr2", 1, failAt)

\* AccelerometerSensorADXL362.disable
AccelerometerSensorADXL362_disable(d, failAt) ==
    LET d3 == IF d.service # NoneRef
              THEN Descriptor(Descriptor(Descriptor(d, "descr0", 0, failAt),
                                         "descr1", 0, failAt),
                              "descr2", 0, failAt)
              ELSE d
    IN  IF Ok(d3) THEN SensorBase_disable(d3, failAt) ELSE d3

\* KeypressSensor.enable
KeypressSensor_enable(d, k, failAt) ==
    Descriptor(SensorBase_enable(d, k, failAt), "descr0", 1, failAt)

\* KeypressSensorCC1352R.enable
KeypressSensorCC1352R_enable(d, k, failAt) ==
    Descriptor(Descriptor(SensorBase_enable(d, k, failAt), "descr0", 1, failAt),
               "descr1", 1, failAt)

\* KeypressSensor.disable, KeypressSensorCC1352R.disable:
\* self.char_descr.write(...) with char_descr assigned only by enable
Keypress_disable(d, failAt) ==
    IF d.char_descr = "" THEN PyRaise(d, "AttributeError")
    ELSE Write(d, d.char_descr, <<0, 0>>, TRUE, failAt)

\* <driver>.enable() as the caller who reaches it
EnableOf(d, k, who, failAt) ==
    CASE k = "BarometerSensor" -> BarometerSensor_enable(d, k, failAt)
      [] k = "MovementSensorMPU9250" ->
            MovementSensorMPU9250_enable(d, k, FacadeBits(who), failAt)
      [] k = "AccelerometerSensorADXL362" ->
            AccelerometerSensorADXL362_enable(d, k, failAt)
      [] k = "KeypressSensor" -> KeypressSensor_enable(d, k, failAt)
      [] k = "KeypressSensorCC1352R" -> KeypressSensorCC1352R_enable(d, k, failAt)
      [] OTHER -> SensorBase_enable(d, k, failAt)

\* <driver>.disable()
DisableOf(d, k, who, failAt) ==
    CASE k = "MovementSensorMPU9250" ->
            MovementSensorMPU9250_disable(d, FacadeBits(who), failAt)
      [] k = "AccelerometerSensorADXL362" ->
            AccelerometerSensorADXL362_disable(d, failAt)
      [] k \in {"KeypressSensor", "KeypressSensorCC1352R"} ->
            Keypress_disable(d, failAt)
      [] OTHER -> SensorBase_disable(d, failAt)

\* <driver>.read(); every read starts with self.data.read() (rawRead for the
\* facades) and decodes the frame of flen bytes it got.
ReadOf(d, k, who, failAt, flen) ==
    IF k = "BarometerSensor" THEN BarometerSensor_read(d, failAt, flen)
    ELSE Decode(DataRead(d, failAt), k, flen)

\* SensorBase.__init__ (and MovementSensorMPU9250.__init__: ctrlBits = 0)
InitDriver(k) ==
    /\ kind = k
    /\ service = NoneRef /\ ctrl = NoneRef /\ data = NoneRef
    /\ char_descr = ""
    /\ drvAttrs = {}
    /\ ctrlBits = 0
    /\ lastCall = "none" /\ lastWho = "self"
    /\ writes = << >> /\ nBaseWrites = 0
    /\ drvRaised = "none" /\ result = "none" /\ calInCall = 0
    /\ nres = [e \in {"service", "ctrl", "data"} |-> 0]
    /\ boundAt = [e \in {"service", "ctrl", "data"} |-> 0]
    /\ nCalls = 0 /\ nEnable = 0
    /\ firstEnable = "none"
    /\ enabledOk = {}
    /\ calLoads = 0
    /\ transportFailed = FALSE
    /\ ctrlWritten = -1
    /\ facadeLast = [f \in Facades |-> "none"]
    /\ frameLen = 0
    /\ lightFrame = << >> /\ lightLux = -1 /\ lightRaised = "idle"

\* What every driver call records.
Called(call, who) ==
    /\ who \in Callers(kind)
    /\ nCalls < MaxCalls
    /\ nCalls' = nCalls + 1
    /\ lastCall' = call
    /\ lastWho' = who
    /\ facadeLast' = IF who \in Facades /\ call \in {"enable", "disable"}
                     THEN [facadeLast EXCEPT ![who] = call]
                     ELSE facadeLast
    /\ UNCHANGED <<kind, opticalVars, dispatchVars, renderVars, mainVars>>

Enable(who, failAt) ==
    LET d == EnableOf(DS, kind, who, failAt)
    IN  /\ Called("enable", who)
        /\ SetDS(d)
        /\ nEnable' = nEnable + 1
        /\ firstEnable' = IF nEnable > 0 THEN firstEnable
                          ELSE IF Ok(d) THEN "ok" ELSE "failed"
        /\ enabledOk' = IF Ok(d) THEN enabledOk \cup {who} ELSE enabledOk
        /\ UNCHANGED frameLen

Disable(who, failAt) ==
    /\ Called("disable", who)
    /\ SetDS(DisableOf(DS, kind, who, failAt))
    /\ UNCHANGED <<nEnable, firstEnable, enabledOk, frameLen>>

\* A read() makes one transport operation, self.data.read().
Read(who, failAt, flen) ==
    /\ failAt \in {0, 1}
    /\ Called("read", who)
    /\ SetDS(ReadOf(DS, kind, who, failAt, flen))
    /\ frameLen' = flen
    /\ UNCHANGED <<nEnable, firstEnable, enabledOk>>


\* ========================================================= SensorTag and main
\* The largest arg.count tried, and the waits for notifications in one
\* behaviour (arg.count = 0 loops for ever).
MaxCount == 2
MaxWaits == 2

\* Sensortag versions
AUTODETECT == "-"
SENSORTAG_V1 == "v1"
SENSORTAG_2650 == "CC2650"
SENSORTAG_1352R == "CC1352R"

\* The services a device may offer: the optical sensor's (_TI_UUID(0xAA70)),
\* the ADXL362 accelerometer's (_TI_UUID(0xFFA0)), the IR temperature sensor's
\* (_TI_UUID(0xAA00)).
SVC_OPTICAL == "AA70"
SVC_ADXL362 == "FFA0"
SVC_IRTEMP == "AA00"
Services == {SVC_OPTICAL, SVC_ADXL362, SVC_IRTEMP}

\* SensorTag.__init__: "if _TI_UUID(0xFFA0) in svcs" inside
\* "if _TI_UUID(0xAA70) in svcs"
HasADXL362_inverted(s) == SVC_ADXL362 \notin s
HasADXL362(s) == SVC_ADXL362 \in s

\* SensorTag.__init__, the autodetection
Autodetect(s) ==
    IF SVC_OPTICAL \in s
    THEN IF HasADXL362(s) THEN SENSORTAG_1352R ELSE SENSORTAG_2650
    ELSE SENSORTAG_V1

\* The roles main's options select, in the order main enables them and in the
\* order the poll loop reads them (keypress is never polled).
Roles == {"temperature", "humidity", "barometer", "accelerometer",
          "magnetometer", "gyroscope", "battery", "keypress", "light"}
EnableOrder == <<"temperature", "humidity", "barometer", "accelerometer",
                 "magnetometer", "gyroscope", "battery", "keypress", "light">>
PollOrder == <<"temperature", "humidity", "barometer", "accelerometer",
               "magnetometer", "gyroscope", "light", "battery">>

\* SensorTag.__init__, the registry: what the attribute of each role holds
\* after construction. The v1 branch assigns lightmeter = None and does not
\* assign battery at all; the CC1352R branch assigns None to magnetometer,
\* barometer and gyroscope.
Registry(v) ==
    [r \in Roles |->
        CASE v = SENSORTAG_V1 /\ r = "light" -> "None"
          [] v = SENSORTAG_V1 /\ r = "battery" -> "missing"
          [] v = SENSORTAG_1352R /\ r \in {"magnetometer", "barometer", "gyroscope"} -> "None"
          [] OTHER -> "driver"]

\* The label the poll loop renders a role's reading with.
PollLabel(r) ==
    CASE r = "temperature"   -> "Temp: "
      [] r = "humidity"      -> "Humidity: "
      [] r = "barometer"     -> "Barometer: "
      [] r = "accelerometer" -> "Accelerometer: "
      [] r = "magnetometer"  -> "Magnetometer: "
      [] r = "gyroscope"     -> "Gyroscope: "
      [] r = "light"         -> "Light: "
      [] r = "battery"       -> "Battery: "

\* The command lines tried: up to two role options, or --all.
Selections == {S \in SUBSET Roles : Cardinality(S) <= 2} \cup {Roles}

\* main before SensorTag(arg.host)
InitMain(sel, n, s) ==
    /\ svcs = s
    /\ version = AUTODETECT
    /\ tagAttr = [r \in Roles |-> "missing"]
    /\ selected = sel
    /\ count = n
    /\ mainPc = "connect"
    /\ idx = 1
    /\ counter = 1
    /\ mainRaised = "none"
    /\ warned = {}
    /\ enabledRoles = {}
    /\ readRoles = {}
    /\ cycleReads = << >>
    /\ nCycles = 0
    /\ nWaits = 0
    /\ exitLog = << >>

\* A render call of main, run to its end.
MainRender(label) ==
    /\ SetRS(renderWhole(RS, isRaw, label, 1))
    /\ UNCHANGED <<isRaw, lock, pc, arg, started>>

\* print(...) of main: one line on the terminal.
MainPrint(n) ==
    /\ termRow' = termRow + n
    /\ UNCHANGED <<isRaw, current_pos, last_pos, dict, lock, out, pc, arg, started, order, firstRow>>

\* main raises: sys.excepthook runs next.
MainRaise(exc) ==
    /\ mainRaised' = exc
    /\ mainPc' = "raised"

\* print('Connecting to ...'); tag = SensorTag(arg.host); print('Connected to ...')
Construct ==
    /\ mainPc = "connect"
    /\ version' = Autodetect(svcs)
    /\ tagAttr' = Registry(version')
    /\ mainPc' = "enable"
    /\ idx' = 1
    /\ MainPrint(2)
    /\ UNCHANGED <<svcs, selected, count, counter, mainRaised, warned, enabledRoles,
                   readRoles, cycleReads, nCycles, nWaits, exitLog>>
    /\ UNCHANGED <<dispatchVars, driverVars>>

\* enable_tag: "if tagI == None:"
IsAbsent(a) == a = "None"

\* One statement of the enabling section:
\* "if arg.<role> or arg.all: enable_tag(name, tag.<attribute>)"
EnableStep ==
    /\ mainPc = "enable"
    /\ LET r == EnableOrder[idx]
       IN  /\ IF r \notin selected
              THEN /\ UNCHANGED <<warned, enabledRoles, mainRaised, renderVars>>
                   /\ mainPc' = IF idx = Len(EnableOrder) THEN "poll" ELSE "enable"
                   /\ idx' = IF idx = Len(EnableOrder) THEN 1 ELSE idx + 1
              ELSE IF tagAttr[r] = "missing"
              THEN /\ MainRaise("AttributeError")
                   /\ UNCHANGED <<warned, enabledRoles, idx, renderVars>>
              ELSE /\ IF IsAbsent(tagAttr[r])
                      THEN /\ warned' = warned \cup {r}
                           /\ MainPrint(1)
                           /\ UNCHANGED enabledRoles
                      ELSE /\ enabledRoles' = enabledRoles \cup {r}
                           /\ UNCHANGED <<warned, renderVars>>
                   /\ UNCHANGED mainRaised
                   /\ mainPc' = IF idx = Len(EnableOrder) THEN "poll" ELSE "enable"
                   /\ idx' = IF idx = Len(EnableOrder) THEN 1 ELSE idx + 1
    /\ UNCHANGED <<svcs, version, tagAttr, selected, count, counter, readRoles,
                   cycleReads, nCycles, nWaits, exitLog>>
    /\ UNCHANGED <<dispatchVars, driverVars>>

\* The poll loop's test of a role: selected, its attribute not None, and for
\* the accelerometer the device not a CC1352R.
Polled(r) ==
    /\ r \in selected
    /\ tagAttr[r] # "None"
    /\ (r = "accelerometer") => (version # SENSORTAG_1352R)

\* One statement of the poll loop:
\* "if (...) and tag.<attribute> is not None: rnd.render(label, tag.<attribute>.read(), unit)"
\* with the outcome of the read: "ok", or the exception it raises.
PollStep(outcome) ==
    /\ mainPc = "poll"
    /\ LET r == PollOrder[idx]
           last == idx = Len(PollOrder)
       IN  IF ~Polled(r)
           THEN /\ outcome = "ok"
                /\ mainPc' = IF last THEN "check" ELSE "poll"
                /\ idx' = IF last THEN 1 ELSE idx + 1
                /\ nCycles' = IF last THEN nCycles + 1 ELSE nCycles
                /\ UNCHANGED <<readRoles, cycleReads, mainRaised, renderVars>>
           ELSE IF tagAttr[r] = "missing"
           THEN /\ outcome = "ok"
                /\ MainRaise("AttributeError")
                /\ UNCHANGED <<idx, nCycles, readRoles, cycleReads, renderVars>>
           ELSE IF outcome = "ok"
           THEN /\ readRoles' = readRoles \cup {r}
                /\ cycleReads' = Append(cycleReads, r)
                /\ MainRender(PollLabel(r))
                /\ mainPc' = IF last THEN "check" ELSE "poll"
                /\ idx' = IF last THEN 1 ELSE idx + 1
                /\ nCycles' = IF last THEN nCycles + 1 ELSE nCycles
                /\ UNCHANGED mainRaised
           ELSE /\ MainRaise(outcome)
                /\ cycleReads' = Append(cycleReads, r)
                /\ UNCHANGED <<idx, nCycles, readRoles, renderVars>>
    /\ UNCHANGED <<svcs, version, tagAttr, selected, count, counter, warned,
                   enabledRoles, nWaits, exitLog>>
    /\ UNCHANGED <<dispatchVars, driverVars>>

\* "if counter >= arg.count and arg.count != 0: break"
LoopEnds_late(c, n) == c > n /\ n # 0
LoopEnds(c, n) == c >= n /\ n # 0

\* The end of a cycle: break, or counter += 1 and on to the wait.
LoopCheck ==
    /\ mainPc = "check"
    /\ IF LoopEnds(counter, count)
       THEN /\ mainPc' = "exit"
            /\ UNCHANGED counter
       ELSE /\ mainPc' = "wait"
            /\ counter' = counter + 1
    /\ UNCHANGED <<svcs, version, tagAttr, selected, count, idx, mainRaised, warned,
                   enabledRoles, readRoles, cycleReads, nCycles, nWaits, exitLog>>
    /\ UNCHANGED <<dispatchVars, driverVars, renderVars>>

\* tag.waitForNotifications(arg.t) returns and the next cycle starts.
Wait ==
    /\ mainPc = "wait"
    /\ nWaits < MaxWaits
    /\ nWaits' = nWaits + 1
    /\ mainPc' = "poll"
    /\ idx' = 1
    /\ cycleReads' = << >>
    /\ UNCHANGED <<svcs, version, tagAttr, selected, count, counter, mainRaised,
                   warned, enabledRoles, readRoles, nCycles, exitLog>>
    /\ UNCHANGED <<dispatchVars, driverVars, renderVars>>

\* What main does after the loop, as the log records it: a transport write
\* (to which object, which payload), the disconnect, the render of 'done'.
ExitOp(op, to, payload) == [op |-> op, to |-> to, payload |-> payload]

\* The Gen3 accelerometer driver as main's enabling section left it: enabled
\* if the accelerometer was selected, else as constructed.
TagAccelerometer ==
    IF "accelerometer" \in enabledRoles
    THEN [AccelerometerSensorADXL362_enable(DS, "AccelerometerSensorADXL362", 0)
            EXCEPT !.writes = << >>]
    ELSE DS

\* The transport writes of tag.accelerometer.disable() at exit.
ExitWrites ==
    LET ws == AccelerometerSensorADXL362_disable(TagAccelerometer, 0).writes
    IN  [i \in 1 .. Len(ws) |-> ExitOp("write", ws[i].to, ws[i].payload)]

\* "if tag.version == SENSORTAG_1352R and tag.accelerometer:"
DisableAtExit_never(v, a) == FALSE
DisableAtExit(v, a) == v = SENSORTAG_1352R /\ a = "driver"

\* "if tag.version == SENSORTAG_1352R and tag.accelerometer:
\*      tag.accelerometer.disable()": AccelerometerSensorADXL362.disable writes
\* the three descriptors and the control endpoint only once enable has bound
\* the service.
ExitDisable ==
    /\ mainPc = "exit"
    /\ exitLog' = IF DisableAtExit(version, tagAttr["accelerometer"])
                  THEN exitLog \o ExitWrites
                  ELSE exitLog
    /\ mainPc' = "disconnect"
    /\ UNCHANGED <<svcs, version, tagAttr, selected, count, idx, counter, mainRaised,
                   warned, enabledRoles, readRoles, cycleReads, nCycles, nWaits>>
    /\ UNCHANGED <<dispatchVars, driverVars, renderVars>>

\* tag.disconnect(); del tag
Disconnect ==
    /\ mainPc = "disconnect"
    /\ exitLog' = Append(exitLog, ExitOp("disconnect", "", << >>))
    /\ mainPc' = "done"
    /\ UNCHANGED <<svcs, version, tagAttr, selected, count, idx, counter, mainRaised,
                   warned, enabledRoles, readRoles, cycleReads, nCycles, nWaits>>
    /\ UNCHANGED <<dispatchVars, driverVars, renderVars>>

\* rnd.render('done', '', ''); print()
RenderDone ==
    /\ mainPc = "done"
    /\ exitLog' = Append(exitLog, ExitOp("render", "done", << >>))
    /\ mainPc' = "end"
    /\ LET r == renderWhole(RS, isRaw, "done", 1)
       IN  SetRS([r EXCEPT !.termRow = @ + 1])
    /\ UNCHANGED <<isRaw, lock, pc, arg, started>>
    /\ UNCHANGED <<svcs, version, tagAttr, selected, count, idx, counter, mainRaised,
                   warned, enabledRoles, readRoles, cycleReads, nCycles, nWaits>>
    /\ UNCHANGED <<dispatchVars, driverVars>>

\* main.exception_handler, installed as sys.excepthook:
\* rnd.render(exception, '', ''); print(); the process ends.
ExceptHook ==
    /\ mainPc = "raised"
    /\ mainPc' = "crashed"
    /\ LET r == renderWhole(RS, isRaw, mainRaised, 1)
       IN  SetRS([r EXCEPT !.termRow = @ + 1])
    /\ UNCHANGED <<isRaw, lock, pc, arg, started>>
    /\ UNCHANGED <<svcs, version, tagAttr, selected, count, idx, counter, mainRaised,
                   warned, enabledRoles, readRoles, cycleReads, nCycles, nWaits, exitLog>>
    /\ UNCHANGED <<dispatchVars, driverVars>>


\* ============================================================ optical sensors
\* raw & mask as Python computes it for a signed raw and a mask below 2^16:
\* on the two's complement of raw.
PyAnd(raw, mask) == BitAnd(raw % 65536, mask)

\* OpticalSensorOPT3001.read: "m = raw & 0xFFF"
Mantissa(raw) == PyAnd(raw, 4095)

\* OpticalSensorOPT3001.read: "e = (raw & 0xF000) >> 12"
Exponent_low3(raw) == PyAnd(raw, 28672) \div 4096
Exponent(raw) == PyAnd(raw, 61440) \div 4096

\* m << e
RECURSIVE ShiftLeft(_, _)
ShiftLeft(m, e) == IF e = 0 THEN m ELSE ShiftLeft(2 * m, e - 1)

\* A reading of the light role: the lux in hundredths, or the exception.
LightResult(lux, exc) == [lux |-> lux, raised |-> exc]

\* OpticalSensorOPT3001.read: struct.unpack('<h', frame)[0], then
\* 0.01 * (m << e); the value in hundredths of a lux is m << e.
OpticalSensorOPT3001_read(bytes) ==
    IF ~UnpackH_ok(bytes) THEN LightResult(-1, "struct.error")
    ELSE LET raw == UnpackH(bytes)
         IN  LightResult(ShiftLeft(Mantissa(raw), Exponent(raw)), "none")

\* n / d rounded to the nearest integer, ties to even (round(x, 2)).
RoundDiv(n, d) ==
    LET q == n \div d
        r == n % d
    IN  IF 2 * r > d THEN q + 1
        ELSE IF 2 * r < d THEN q
        ELSE IF q % 2 = 0 THEN q ELSE q + 1

RECURSIVE Pow2(_)
Pow2(n) == IF n = 0 THEN 1 ELSE 2 * Pow2(n - 1)

\* struct.unpack('<f', frame)[0] rounded to 2 decimals, in hundredths: the
\* IEEE 754 single of the four bytes, sign, biased exponent and 23-bit
\* fraction (for the normal numbers below 2^24 that the frames tried hold).
Float32Hundredths(bytes) ==
    LET sign == bytes[4] \div 128
        ex == (bytes[4] % 128) * 2 + bytes[3] \div 128
        frac == (bytes[3] % 128) * 65536 + bytes[2] * 256 + bytes[1]
        sig == IF ex = 0 THEN frac ELSE 8388608 + frac
        q == 150 - ex
        mag == IF q > 30 THEN 0 ELSE RoundDiv(100 * sig, Pow2(q))
    IN  IF sign = 1 THEN 0 - mag ELSE mag

\* OpticalSensorOPT3010.read: round(struct.unpack('<f', frame)[0], 2)
OpticalSensorOPT3010_read(bytes) ==
    IF Len(bytes) # 4 THEN LightResult(-1, "struct.error")
    ELSE LightResult(Float32Hundredths(bytes), "none")

\* SensorTag.__init__: the class of tag.lightmeter on each version.
LightClass(v) ==
    CASE v = SENSORTAG_2650 -> "OpticalSensorOPT3001"
      [] v = SENSORTAG_1352R -> "OpticalSensorOPT3010"
      [] OTHER -> "None"

\* tag.lightmeter.read() on the frame the transport returns
\* (AttributeError where tag.lightmeter is None).
LightReadOf(v, bytes) ==
    CASE LightClass(v) = "OpticalSensorOPT3001" -> OpticalSensorOPT3001_read(bytes)
      [] LightClass(v) = "OpticalSensorOPT3010" -> OpticalSensorOPT3010_read(bytes)
      [] OTHER -> LightResult(-1, "AttributeError")

\* The frames tried besides every two-byte frame: the singles 1.0, 0.16, 2.5
\* and 100.0, and frames of no, one and three bytes.
OtherLightFrames ==
    {<<0, 0, 128, 63>>, <<10, 215, 35, 62>>, <<0, 0, 32, 64>>, <<0, 0, 200, 66>>,
     << >>, <<16>>, <<16, 0, 0>>}

\* tag.lightmeter.read() on the constructed, enabled tag: the first read.
LightRead(bytes) ==
    /\ mainPc = "enable"
    /\ lightRaised = "idle"
    /\ LET r == LightReadOf(version, bytes)
       IN  /\ lightFrame' = bytes
           /\ lightLux' = r.lux
           /\ lightRaised' = r.raised
    /\ UNCHANGED <<sensorVars, dispatchVars, renderVars, mainVars>>


\* ========================================================== specifications
\* main: rnd = render(arg.rawdata); tag.setDelegate(SensorDelegate(rnd)) on a
\* CC1352R, tag.setDelegate(KeypressDelegate()) otherwise.
InitDispatch ==
    /\ \E d \in {"KeypressDelegate", "SensorDelegate"} : InitDelegate(d)
    /\ \E raw \in BOOLEAN : InitRenderer(raw)
    /\ InitDriver("KeypressSensor")
    /\ InitMain({}, 1, {})

\* Peripheral.waitForNotifications hands each notification to the delegate.
NextDispatch ==
    \E hnd \in Handles, bytes \in Payloads :
        \/ KeypressDelegate_handleNotification(hnd, bytes)
        \/ SensorDelegate_handleNotification(hnd, bytes)

SpecDispatch == InitDispatch /\ [][NextDispatch]_vars

\* The threads' render calls.
InitRender ==
    /\ InitDelegate("KeypressDelegate")
    /\ \E raw \in BOOLEAN : InitRenderer(raw)
    /\ InitDriver("KeypressSensor")
    /\ InitMain({}, 1, {})

NextRender ==
    \E t \in Threads :
        \/ \E label \in Labels : RenderCall(t, label)
        \/ RawWriteLabel(t)
        \/ RawWriteData(t)
        \/ Acquire(t)
        \/ MoveStep(t)
        \/ PrintStep(t)
        \/ Release(t)

SpecRender == InitRender /\ [][NextRender]_vars

\* The threads' dashboard render calls on a terminal whose writes may fail.
InitRenderFaults ==
    /\ InitDelegate("KeypressDelegate")
    /\ InitRenderer(FALSE)
    /\ InitDriver("KeypressSensor")
    /\ InitMain({}, 1, {})

NextRenderFaults ==
    \E t \in Threads :
        \/ \E label \in Labels : RenderCall(t, label)
        \/ Acquire(t)
        \/ MoveStep(t)
        \/ MoveFails(t)
        \/ PrintStep(t)
        \/ PrintFails(t)
        \/ Release(t)

SpecRenderFaults == InitRenderFaults /\ [][NextRenderFaults]_vars

\* One driver object and the calls made on it.
InitDrivers ==
    /\ InitDelegate("KeypressDelegate")
    /\ InitRenderer(FALSE)
    /\ \E k \in Kinds : InitDriver(k)
    /\ InitMain({}, 1, {})

NextDrivers ==
    \E who \in Facades \cup {"self"}, failAt \in FailPoints :
        \/ Enable(who, failAt)
        \/ Disable(who, failAt)
        \/ \E flen \in FrameLens : Read(who, failAt, flen)

SpecDrivers == InitDrivers /\ [][NextDrivers]_vars

\* Notifications delivered, or driver calls made, in a behaviour of SpecDecode.
MaxDecodeSteps == 2

\* Notifications delivered in a behaviour of SpecSession.
MaxSessionNotif == 2

\* A Gen3 session: the transport's assignment of handles, then the
\* notifications handed to the SensorDelegate.
InitSession ==
    /\ \E a \in Assignments : InitDelegateIn("SensorDelegate", a)
    /\ InitRenderer(FALSE)
    /\ InitDriver("KeypressSensorCC1352R")
    /\ InitMain({}, 1, {})

NextSession ==
    \E hnd \in Handles, bytes \in Payloads :
        /\ Len(hnds) < MaxSessionNotif
        /\ SensorDelegate_handleNotification(hnd, bytes)

SpecSession == InitSession /\ [][NextSession]_vars

\* The decoders of the program, one component in a behaviour: the installed
\* delegate's notifications, or the read() calls of one driver.
InitDecode ==
    \/ InitDispatch
    \/ InitDrivers

NextDecode ==
    \/ /\ nCalls = 0
       /\ Len(masks) + Len(hnds) < MaxDecodeSteps
       /\ NextDispatch
    \/ /\ Len(masks) + Len(hnds) = 0
       /\ nCalls < MaxDecodeSteps
       /\ NextDrivers

SpecDecode == InitDecode /\ [][NextDecode]_vars

\* The light role of a tag of every generation: construction, then a read.
InitLight ==
    /\ InitDelegate("KeypressDelegate")
    /\ InitRenderer(FALSE)
    /\ InitDriver("KeypressSensor")
    /\ \E s \in SUBSET {SVC_OPTICAL, SVC_ADXL362} : InitMain({"light"}, 1, s)

NextLight ==
    \/ Construct
    \/ /\ lightRaised = "idle"
       /\ \E a \in 0 .. 255, b \in 0 .. 255 : LightRead(<<a, b>>)
    \/ /\ lightRaised = "idle"
       /\ \E bytes \in OtherLightFrames : LightRead(bytes)

SpecLight == InitLight /\ [][NextLight]_vars

\* main from its start, for every set of discovered services, the command
\* lines of Selections and every arg.count up to MaxCount.
InitMainRun ==
    /\ InitDelegate("KeypressDelegate")
    /\ \E raw \in BOOLEAN : InitRenderer(raw)
    /\ InitDriver("KeypressSensor")
    /\ \E sel \in Selections, n \in 0 .. MaxCount, s \in SUBSET Services :
          InitMain(sel, n, s)

NextMain ==
    \/ Construct
    \/ EnableStep
    \/ \E outcome \in {"ok", "struct.error", "BTLEException"} : PollStep(outcome)
    \/ LoopCheck
    \/ Wait
    \/ ExitDisable
    \/ Disconnect
    \/ RenderDone
    \/ ExceptHook

SpecMain == InitMainRun /\ [][NextMain]_vars

\* ================================================================== claims
\* The bits set in a byte, and the byte with exactly the bits of a set.
BitsOf(v) == {i \in 0 .. 7 : (v \div (2 ^ i)) % 2 = 1}
RECURSIVE ByteOf(_)
ByteOf(S) ==
    IF S = {} THEN 0
    ELSE LET i == CHOOSE k \in S : TRUE IN (2 ^ i) + ByteOf(S \ {i})

\* The two button bits of the mask 0x03.
ButtonBits == {0, 1}
\* The buttons that go down (up) between the masks last and cur.
WentDown(last, cur) == ByteOf((BitsOf(cur) \ BitsOf(last)) \cap ButtonBits)
WentUp(last, cur) == ByteOf((BitsOf(last) \ BitsOf(cur)) \cap ButtonBits)

\* The mask of the last one-byte payload among the first n payloads handled by
\* KeypressDelegate, 0 when there is none.
RECURSIVE MaskAfter(_)
MaskAfter(n) ==
    IF n = 0 THEN 0
    ELSE IF Len(masks[n]) = 1 THEN masks[n][1]
    ELSE MaskAfter(n - 1)

\* C1: KeypressDelegate.handleNotification, starting from last = 0: a
\* notification with one-byte mask cur emits DOWN((~last & cur) & 0x03) iff
\* that is non-zero, then UP((last & ~cur) & 0x03) iff that is non-zero, and
\* last becomes cur; a mask equal to the previous one emits nothing; the masks
\* [0x00, 0x02, 0x00] yield exactly [DOWN(0x02), UP(0x02)].
C1_KeypressEdges ==
    delegate = "KeypressDelegate" =>
        /\ lastVal = MaskAfter(Len(masks))
        /\ (Len(masks) > 0 /\ Len(lastData) = 1) =>
              LET last == MaskAfter(Len(masks) - 1)
                  cur == lastData[1]
                  d == WentDown(last, cur)
                  u == WentUp(last, cur)
              IN  /\ prevLastVal = last
                  /\ emitted =
                        (IF d # 0 THEN <<ButtonEvent("DOWN", d)>> ELSE << >>)
                        \o (IF u # 0 THEN <<ButtonEvent("UP", u)>> ELSE << >>)
                  /\ (cur = last => emitted = << >>)
        /\ (masks = << <<0>>, <<2>>, <<0>> >>) =>
              events = <<ButtonEvent("DOWN", 2), ButtonEvent("UP", 2)>>

\* C1 witness: the masks 0x00, 0x02, 0x00 were delivered and the second and
\* third produced the two events.
C1_Witness ==
    /\ delegate = "KeypressDelegate"
    /\ masks = << <<0>>, <<2>>, <<0>> >>
    /\ events = <<ButtonEvent("DOWN", 2), ButtonEvent("UP", 2)>>
    /\ emitted = <<ButtonEvent("UP", 2)>>

\* C2 (as claimed): SensorDelegate.handleNotification emits a vector event when
\* and only when a well-formed z notification is handled, carrying the most
\* recently received x and y with that z; x, y, z in that order emit exactly
\* one vector event, x and y alone none.
C2_VectorOnEveryZ ==
    (delegate = "SensorDelegate" /\ Len(hnds) > 0
       /\ lastHnd \in {HND_X, HND_Y, HND_Z} /\ Len(lastData) = 2) =>
        /\ (emitted # << >>) <=> (lastHnd = HND_Z)
        /\ (lastHnd = HND_Z /\ recv[HND_X] # << >> /\ recv[HND_Y] # << >>) =>
              emitted = <<VectorEvent(UnpackH(recv[HND_X]), UnpackH(recv[HND_Y]),
                                      UnpackH(lastData))>>
        /\ (hnds = <<HND_X, HND_Y, HND_Z>>) => Len(events) <= 1
        /\ (hnds = <<HND_X, HND_Y>>) => events = << >>

\* C3 (as claimed): one handleNotification call emits at most one event.
C3_AtMostOneEvent == Len(emitted) <= 1

\* C3 (amended): a SensorDelegate call emits at most one event; a
\* KeypressDelegate call emits at most one DOWN followed by at most one UP, and
\* emits both exactly when one button bit is set and the other cleared by the
\* same mask.
C3_EventsPerCall ==
    /\ delegate = "SensorDelegate" => Len(emitted) <= 1
    /\ delegate = "KeypressDelegate" =>
          /\ Len(emitted) <= 2
          /\ Len(emitted) = 2 =>
                /\ emitted[1].type = "DOWN" /\ emitted[2].type = "UP"
                /\ Len(lastData) = 1
          /\ (Len(masks) > 0 /\ Len(lastData) = 1) =>
                ((Len(emitted) = 2) <=>
                     (/\ WentDown(prevLastVal, lastData[1]) # 0
                      /\ WentUp(prevLastVal, lastData[1]) # 0))
          /\ (Len(masks) > 0 /\ Len(lastData) # 1) => emitted = << >>

\* C3 witness: a KeypressDelegate call that emitted a DOWN and an UP, one
\* button pressed while the other was released.
C3_Witness ==
    /\ delegate = "KeypressDelegate"
    /\ prevLastVal = 1 /\ lastData = <<2>>
    /\ emitted = <<ButtonEvent("DOWN", 2), ButtonEvent("UP", 1)>>

\* C4: render.getLine gives the k-th distinct label line k-1, no two labels
\* share a line, and a label keeps the line it was first given whatever is
\* rendered in between.
C4_LinesInFirstSeenOrder ==
    /\ DOMAIN dict = {order[k] : k \in 1 .. Len(order)}
    /\ Cardinality(DOMAIN dict) = Len(order)
    /\ \A k \in 1 .. Len(order) : dict[order[k]] = k - 1
    /\ \A a, b \in DOMAIN dict : dict[a] = dict[b] => a = b
    /\ \A t \in Threads :
          (pc[t] \in {"print", "release"}) => current_pos = dict[arg[t]]

\* C4 witness: the first label is rendered again after a second label was
\* registered, and resolves to line 0.
C4_Witness ==
    \E t \in Threads :
        /\ pc[t] = "release"
        /\ Len(order) >= 2
        /\ arg[t] = order[1]
        /\ started = 3
        /\ current_pos = 0

\* The threads inside printDashboard's critical section.
InSection == {t \in Threads : pc[t] \in {"move", "print", "release"}}
\* The writes since the terminal was last quiet are all one thread's.
NoInterleave == \A i, j \in 1 .. Len(out) : out[i].by = out[j].by

\* C5 (as claimed): in raw mode as in dashboard mode, no write of one render
\* call comes between the writes of another.
C5_AllRendersSerialized == NoInterleave

\* C5 (amended): in dashboard mode every write and every update of the line
\* and cursor state is made by the one thread inside the critical section; in
\* raw mode no lock is taken and the line and cursor state is never touched.
C5_DashboardSerialized ==
    /\ ~isRaw =>
          /\ Cardinality(InSection) <= 1
          /\ lock = (InSection # {})
          /\ NoInterleave
          /\ \A i \in 1 .. Len(out) : InSection # {} => out[i].by \in InSection
    /\ isRaw =>
          /\ lock = FALSE
          /\ current_pos = 0 /\ last_pos = -1 /\ dict = << >>

\* C5 witness: one thread is between its cursor move and its print while
\* another waits for the lock.
C5_Witness ==
    /\ ~isRaw
    /\ \E t, u \in Threads :
          /\ pc[t] = "print" /\ pc[u] = "acquire"
          /\ Len(out) > 0

\* The enabling section has gone past the statement of role r.
EnablingPassed(r) ==
    \/ mainPc \in {"poll", "check", "wait", "exit", "disconnect", "done", "end"}
    \/ /\ mainPc = "enable"
       /\ \E i \in 1 .. Len(EnableOrder) : EnableOrder[i] = r /\ i < idx

\* C6 (as claimed): on every generation the constructed device maps each of
\* the nine roles to a driver or to explicit absence (None); a requested role
\* that is absent gets the 'unsupported' warning, main raises no
\* AttributeError, and the role is neither enabled nor read afterwards.
C6_AbsentRoleWarned ==
    version # AUTODETECT =>
        /\ \A r \in Roles : tagAttr[r] \in {"driver", "None"}
        /\ mainRaised # "AttributeError"
        /\ \A r \in Roles :
              tagAttr[r] # "driver" =>
                  /\ r \notin enabledRoles
                  /\ r \notin readRoles
                  /\ (r \in selected /\ EnablingPassed(r)) => r \in warned

\* C7: after SensorTag.__init__ with autodetection the version is exactly the
\* one the discovered services determine: the optical service without the
\* ADXL362 service gives CC2650, both give CC1352R, neither gives v1.
C7_Autodetect ==
    mainPc # "connect" =>
        /\ version \in {SENSORTAG_V1, SENSORTAG_2650, SENSORTAG_1352R}
        /\ (SVC_OPTICAL \in svcs /\ SVC_ADXL362 \notin svcs) => version = SENSORTAG_2650
        /\ (SVC_OPTICAL \in svcs /\ SVC_ADXL362 \in svcs) => version = SENSORTAG_1352R
        /\ (SVC_OPTICAL \notin svcs /\ SVC_ADXL362 \notin svcs) => version = SENSORTAG_V1

\* C7 witness: a device offering both the optical and the ADXL362 service has
\* been constructed as a CC1352R.
C7_Witness ==
    /\ mainPc = "enable"
    /\ SVC_OPTICAL \in svcs
    /\ SVC_ADXL362 \in svcs
    /\ version = SENSORTAG_1352R

\* The three endpoints SensorBase.enable binds, and the bound object of each.
Endpoints == {"service", "ctrl", "data"}
BoundRef(e) ==
    CASE e = "service" -> service
      [] e = "ctrl"    -> ctrl
      [] e = "data"    -> data

\* The writes of the most recent call that went to the control endpoint with
\* the class's enable payload, acknowledged.
PayloadWrites ==
    {i \in 1 .. Len(writes) : writes[i] = Wr("ctrl", sensorOn(kind), TRUE)}

\* C8: over any enable()/disable() calls on one driver every endpoint is
\* resolved at most once, by the first enable() when that call completes; a
\* bound endpoint stays the object of that first resolution; and every
\* completed enable() makes exactly one acknowledged write of the enable
\* payload to the control endpoint, SensorBase.enable writing nothing when
\* the class has no payload.
C8_EnableBindsOnce ==
    /\ \A e \in Endpoints :
          /\ nres[e] <= 1
          /\ BoundRef(e) = nres[e]
          /\ (nEnable = 0) => BoundRef(e) = NoneRef
          /\ (firstEnable = "ok") => (BoundRef(e) = 1 /\ boundAt[e] = 1)
    /\ (lastCall = "enable" /\ drvRaised = "none") =>
          /\ nBaseWrites = (IF sensorOn(kind) # << >> THEN 1 ELSE 0)
          /\ (sensorOn(kind) # << >>) =>
                /\ writes[1] = Wr("ctrl", sensorOn(kind), TRUE)
                /\ Cardinality(PayloadWrites) = 1
          /\ (kind \in {"IRTemperatureSensor", "BatterySensor"}) =>
                Len(writes) = nBaseWrites

\* C8 witness: a driver with an enable payload is enabled, disabled and
\* enabled again; the second enable resolves nothing and writes the payload.
C8_Witness ==
    /\ kind = "IRTemperatureSensor"
    /\ nCalls = 3 /\ nEnable = 2
    /\ firstEnable = "ok"
    /\ lastCall = "enable" /\ drvRaised = "none"
    /\ writes = <<Wr("ctrl", <<1>>, TRUE)>>
    /\ \A e \in Endpoints : nres[e] = 1

\* C9 (as claimed): a read() through a driver or a facade whose own enable()
\* has not completed before raises and returns no reading (stated for the
\* behaviours in which the transport never fails, where every enable() that
\* was called has succeeded).
C9_ReadNeedsEnable ==
    (~transportFailed /\ lastCall = "read" /\ lastWho \notin enabledOk) =>
        (drvRaised # "none" /\ result = "none")

\* The bitwise OR of the masks of the facades in F.
RECURSIVE OrOfMasks(_)
OrOfMasks(F) ==
    IF F = {} THEN 0
    ELSE LET f == CHOOSE x \in F : TRUE
         IN  BitOr(FacadeBits(f), OrOfMasks(F \ {f}))

\* The facades whose own most recent enable or disable call was enable().
FacadesOn == {f \in Facades : facadeLast[f] = "enable"}

\* C11: on the shared MovementSensorMPU9250, once an enable() has bound the
\* control characteristic and while no transport operation has failed, the
\* 16-bit value most recently written to the control characteristic is the
\* bitwise OR of the masks (gyroscope 0x0007, accelerometer 0x0138,
\* magnetometer 0x0040) of exactly the facades whose own most recent call was
\* enable(), and the driver's ctrlBits is that value; so a disable() of one
\* facade clears no bit of another.
C11_SharedControlBits ==
    (kind = "MovementSensorMPU9250" /\ ~transportFailed /\ ctrl # NoneRef) =>
        /\ ctrlWritten = OrOfMasks(FacadesOn)
        /\ ctrlBits = ctrlWritten
        /\ FacadeBits("gyroscope") = 7
        /\ FacadeBits("accelerometer") = 312
        /\ FacadeBits("magnetometer") = 64

\* C11 witness: two facades were enabled and one of them was then disabled;
\* the control characteristic holds the other's bits alone.
C11_Witness ==
    /\ kind = "MovementSensorMPU9250" /\ ~transportFailed
    /\ lastCall = "disable" /\ drvRaised = "none"
    /\ Cardinality(FacadesOn) = 1
    /\ \E f \in Facades : facadeLast[f] = "disable"
    /\ ctrlWritten > 0

\* The step is a call of KeypressDelegate.handleNotification, of
\* SensorDelegate.handleNotification, of a driver's read().
IsKeypressCall == Len(masks') = Len(masks) + 1
IsSensorCall == Len(hnds') = Len(hnds) + 1
IsReadCall == nCalls' = nCalls + 1 /\ lastCall' = "read"

\* C12: a frame whose length differs from the width its decoder declares (one
\* byte for a button mask or state byte, two bytes for an axis value, the
\* struct format's or ord()'s width for a driver's read()) makes the call
\* raise; no event and no reading comes of it, and the last button mask and
\* the buffered x, y, z are what they were before the call.
C12_LengthMismatchRejected ==
    [][ /\ (IsKeypressCall /\ Len(lastData') # 1) =>
              /\ raised' = "struct.error"
              /\ emitted' = << >> /\ events' = events
              /\ lastVal' = lastVal
        /\ (IsSensorCall /\ lastHnd' \in {HND_X, HND_Y, HND_Z} /\ Len(lastData') # 2) =>
              /\ raised' = "struct.error"
              /\ emitted' = << >> /\ events' = events
              /\ UNCHANGED <<sd_x, sd_y, sd_z, sd_attrs>>
        /\ (IsSensorCall /\ lastHnd' \in {HND_BUT1, HND_BUT2} /\ Len(lastData') # 1) =>
              /\ raised' = "struct.error"
              /\ emitted' = << >> /\ events' = events
              /\ UNCHANGED <<sd_x, sd_y, sd_z, sd_attrs>>
        /\ (IsReadCall /\ Width(kind) # 0 /\ frameLen' # Width(kind)) =>
              /\ drvRaised' # "none"
              /\ result' = "none"
      ]_vars

\* C12 witness: with x buffered as -1, a three-byte frame on the x channel
\* was rejected and x is still -1.
C12_Witness ==
    /\ delegate = "SensorDelegate"
    /\ lastHnd = HND_X /\ lastData = <<1, 0, 0>>
    /\ raised = "struct.error"
    /\ sd_attrs = {"x"} /\ sd_x = -1

\* main has left the poll loop by its break.
LoopLeft == mainPc \in {"exit", "disconnect", "done", "end"}

\* C13: the poll loop is left (no read having failed) only with a count
\* n >= 1, after exactly n read cycles and n - 1 waits for notifications; it
\* never waits again once n cycles are done; with count 0 it is never left.
C13_LoopCount ==
    /\ LoopLeft => (count >= 1 /\ nCycles = count /\ nWaits = count - 1)
    /\ (mainPc = "wait" /\ count >= 1) => nCycles < count
    /\ (count >= 1 /\ mainPc \in {"poll", "check"}) =>
          (nCycles <= count /\ nWaits = counter - 1)
    /\ count = 0 => ~LoopLeft

\* C13 witness: a run with count 2 has ended after two cycles and one wait.
C13_Witness ==
    /\ mainPc = "end" /\ count = 2
    /\ nCycles = 2 /\ nWaits = 1


\* The positions in the exit log of the disconnect, of the render of 'done',
\* of the notify-off write to a descriptor.
DisconnectAt == {i \in 1 .. Len(exitLog) : exitLog[i].op = "disconnect"}
DoneAt == {i \in 1 .. Len(exitLog) : exitLog[i].op = "render" /\ exitLog[i].to = "done"}
NotifyOffAt(descr) ==
    {i \in 1 .. Len(exitLog) : exitLog[i] = ExitOp("write", descr, <<0, 0>>)}

\* C14: when main has ended on a CC1352R whose accelerometer was enabled, the
\* notify-off payload was written once to each of the three descriptors, in
\* their order, then the transport was disconnected, then 'done' was
\* rendered; on every generation 'done' is rendered only after the one
\* disconnect and no transport write follows the disconnect.
C14_ExitOrder ==
    /\ (mainPc = "end" /\ version = SENSORTAG_1352R /\ "accelerometer" \in enabledRoles) =>
          \E i0 \in NotifyOffAt("descr0"), i1 \in NotifyOffAt("descr1"),
             i2 \in NotifyOffAt("descr2"), d \in DisconnectAt, e \in DoneAt :
                /\ i0 < i1 /\ i1 < i2 /\ i2 < d /\ d < e
                /\ \A dd \in {"descr0", "descr1", "descr2"} :
                      Cardinality(NotifyOffAt(dd)) = 1
    /\ mainPc = "end" => (Cardinality(DisconnectAt) = 1 /\ Cardinality(DoneAt) = 1)
    /\ \A e \in DoneAt : \E d \in DisconnectAt : d < e
    /\ \A d \in DisconnectAt :
          \A i \in 1 .. Len(exitLog) : (i > d) => exitLog[i].op # "write"

\* C14 witness: main has ended on a CC1352R whose accelerometer was enabled.
C14_Witness ==
    /\ mainPc = "end" /\ version = SENSORTAG_1352R
    /\ "accelerometer" \in enabledRoles
    /\ Len(exitLog) = 6

\* The roles one poll cycle reads, in the loop's order.
PolledSeq == SelectSeq(PollOrder, Polled)

\* C15 (as claimed): a finished poll cycle has read each selected, present,
\* polled sensor exactly once, in the loop's order; a decode failure
\* (struct.error) of one read() leaves main in the cycle, so that the sensors
\* after it are still attempted; only a transport failure ends the cycle.
C15_DecodeFailureIsolated ==
    /\ mainPc = "check" => cycleReads = PolledSeq
    /\ mainRaised = "struct.error" => mainPc \in {"poll", "check"}

\* C16 (as claimed): the events a KeypressDelegate emits for a notification
\* on a channel are the edges between its mask and the mask last received on
\* that same channel; notifications on another channel change nothing of it.
C16_ChannelsIndependent ==
    (delegate = "KeypressDelegate" /\ Len(masks) > 0 /\ Len(lastData) = 1) =>
        emitted = KeyEvents(lastData[1], chanPrev)

\* The 16-bit value of a two-byte little-endian frame, its low 12 bits and
\* its top 4 bits.
RawOf(bytes) == bytes[1] + 256 * bytes[2]
RawMantissa(bytes) == RawOf(bytes) % 4096
RawExponent(bytes) == RawOf(bytes) \div 4096

\* The light role has decoded the two-byte frame as mantissa and exponent:
\* 100 * lux = mantissa * 2^exponent.
DecodedAsMantissaExponent ==
    /\ lightRaised = "none"
    /\ lightLux = RawMantissa(lightFrame) * Pow2(RawExponent(lightFrame))

\* C17 (as claimed): on a CC1352R the light role decodes every two-byte frame
\* as mantissa and exponent.
C17_Gen3MantissaExponent ==
    (version = SENSORTAG_1352R /\ lightRaised # "idle" /\ Len(lightFrame) = 2) =>
        DecodedAsMantissaExponent

\* C17 (amended): the mantissa and exponent decode of a two-byte frame is the
\* light role's on a CC2650, for every 16-bit raw value, the top bit set or
\* not; on a CC1352R the light role decodes a four-byte frame as a single
\* rounded to 2 decimals and rejects every two-byte frame.
C17_Gen2MantissaExponent ==
    /\ (version = SENSORTAG_2650 /\ lightRaised # "idle" /\ Len(lightFrame) = 2) =>
          DecodedAsMantissaExponent
    /\ (version = SENSORTAG_2650 /\ lightFrame = <<16, 0>>) => lightLux = 16
    /\ (version = SENSORTAG_1352R /\ lightRaised # "idle" /\ Len(lightFrame) = 2) =>
          (lightRaised = "struct.error" /\ lightLux = -1)
    /\ (version = SENSORTAG_1352R /\ lightRaised # "idle" /\ Len(lightFrame) = 4) =>
          lightRaised = "none"
    /\ (version = SENSORTAG_1352R /\ lightFrame = <<10, 215, 35, 62>>) => lightLux = 16

\* C17 witness: a CC2650 has decoded the raw value 0xF123, top bit set, as
\* 0x123 << 15 hundredths of a lux.
C17_Witness ==
    /\ version = SENSORTAG_2650
    /\ lightFrame = <<35, 241>>
    /\ lightRaised = "none"
    /\ lightLux = 291 * 32768

\* C18 (as claimed): a payload delivered on the handle the session's
\* transport assigned to a role is handled as that role: an axis value is
\* stored as that axis, a state byte 0x01 emits DOWN of that button.
C18_SessionChannels ==
    (delegate = "SensorDelegate" /\ Len(hnds) > 0 /\ raised = "none") =>
        /\ (lastHnd = assigned["x"] /\ Len(lastData) = 2) =>
              ("x" \in sd_attrs /\ sd_x = UnpackH(lastData))
        /\ (lastHnd = assigned["y"] /\ Len(lastData) = 2) =>
              ("y" \in sd_attrs /\ sd_y = UnpackH(lastData))
        /\ (lastHnd = assigned["z"] /\ Len(lastData) = 2) =>
              ("z" \in sd_attrs /\ sd_z = UnpackH(lastData))
        /\ (lastHnd = assigned["but1"] /\ lastData = <<1>>) =>
              emitted = <<ButtonEvent("DOWN", BUTTON_R)>>
        /\ (lastHnd = assigned["but2"] /\ lastData = <<1>>) =>
              emitted = <<ButtonEvent("DOWN", BUTTON_L)>>

\* The writes of o after its last newline: what printDashboard's own
\* moveCursor wrote, after the writes of getLine.
RECURSIVE AfterLastNewline(_)
AfterLastNewline(o) ==
    IF \A i \in 1 .. Len(o) : o[i].op # "NL" THEN o
    ELSE AfterLastNewline(Tail(o))

\* The escape sequences that move the cursor from line from to line to: n
\* lines down ('E'), n lines up ('F'), nothing when it is there.
ExpectedMove(from, to) ==
    IF to > from THEN <<<<"E", to - from>>>>
    ELSE IF to < from THEN <<<<"F", from - to>>>>
    ELSE << >>

\* The escape sequences written, without who wrote them.
MovesOf(o) == [i \in 1 .. Len(o) |-> <<o[i].op, o[i].n>>]

\* C19: in dashboard mode the move a render makes to its label's line is
\* exactly the distance from the tracked position, as the previous render
\* left it, to that line, down if the line is larger, up if smaller, nothing
\* if equal; the tracked position is then the label's line and stays so to
\* the end of the render: nothing is restored.
C19_CursorTracking ==
    [][ \A t \in Threads :
          /\ (pc[t] = "move" /\ pc'[t] = "print") =>
                /\ current_pos' = dict'[arg[t]]
                /\ MovesOf(AfterLastNewline(out')) =
                      ExpectedMove(current_pos, dict'[arg[t]])
          /\ (pc[t] \in {"print", "release"} /\ pc'[t] # pc[t]) =>
                /\ current_pos' = current_pos
                /\ current_pos' = dict'[arg[t]]
      ]_vars

\* C19 witness: a render of a known label has just moved the cursor up by one
\* line, from line 1 to line 0, and written nothing else before its print.
C19_Witness ==
    \E t \in Threads :
        /\ pc[t] = "print"
        /\ out = <<Tok("F", 1, "", t)>>
        /\ current_pos = 0
        /\ dict[arg[t]] = 0

\* C20: whatever transport step of an enable() failed, a BarometerSensor
\* read() returns a reading only if an earlier enable() got through the
\* calibration read and the computation of the coefficients; a read() with
\* no calibration loaded raises and returns nothing.
C20_NoUncalibratedReading ==
    (kind = "BarometerSensor" /\ lastCall = "read") =>
        /\ result = "reading" => calLoads > 0
        /\ calLoads = 0 => (drvRaised # "none" /\ result = "none")

\* C20 witness: an enable() failed after binding the data characteristic and
\* before the calibration was loaded; the read() that followed got a frame of
\* the right width and raised AttributeError.
C20_Witness ==
    /\ kind = "BarometerSensor" /\ lastCall = "read"
    /\ nEnable > 0 /\ firstEnable = "failed"
    /\ data # NoneRef /\ calLoads = 0
    /\ frameLen = 4
    /\ drvRaised = "AttributeError" /\ result = "none"

\* C21 (as claimed): in dashboard mode every render of a label writes the
\* label on the terminal row its first render wrote it on (the physical row
\* and the tracked cursor position differ by the same amount at every label
\* write), also when other labels were registered in between.
C21_SameRowPerLabel ==
    ~isRaw =>
        \A t \in Threads :
            pc[t] = "release" => termRow = firstRow[arg[t]]

\* C22 (as claimed): the render lock is released at the end of every
\* printDashboard call that acquired it, also when a write inside the
\* critical section fails: the lock is held only while some call is between
\* its acquire and its release, so a later render can always get it.
C22_LockReleasedAtEnd == lock => InSection # {}

\* C23 (as claimed): a well-formed z-channel notification handled by
\* SensorDelegate before an x-channel and a y-channel notification have both
\* been received emits no vector event and raises no error.
C23_IncompleteBufferSilent ==
    (/\ delegate = "SensorDelegate"
     /\ Len(hnds) > 0 /\ lastHnd = HND_Z /\ UnpackH_ok(lastData)
     /\ ~({"x", "y"} \subseteq sd_attrs)) =>
        (raised = "none" /\ emitted = << >>)

\* C24 (as claimed): disable() on a driver (or through a facade) on which no
\* enable() was ever called makes no transport write and raises no error.
C24_DisableBeforeEnableIsNoop ==
    (lastCall = "disable" /\ nEnable = 0) =>
        (writes = << >> /\ drvRaised = "none")

\* C10 (as claimed): the Gen1 barometer's calibration sequence is run by the
\* first enable() only, never by a later one.
C10_CalibrationOnce ==
    (kind = "BarometerSensor" /\ lastCall = "enable" /\ nEnable > 1) =>
        calInCall = 0

\* C10 (amended): every BarometerSensor.enable() that completes runs the
\* calibration sequence exactly once, between its acknowledged writes of 0x02
\* and 0x01 to the control endpoint, the first call and every later one;
\* read() and disable() never run it.
C10_CalibrationEveryEnable ==
    kind = "BarometerSensor" =>
        /\ calInCall <= 1
        /\ calLoads <= nEnable
        /\ (lastCall = "enable" /\ drvRaised = "none") =>
              /\ calInCall = 1
              /\ "cal" \in drvAttrs
              /\ writes = <<Wr("ctrl", <<2>>, TRUE), Wr("ctrl", <<1>>, TRUE)>>
        /\ (lastCall = "enable" /\ drvRaised = "none"
              /\ firstEnable = "ok" /\ nEnable >= 2) => calLoads >= 2
        /\ (lastCall \in {"read", "disable"}) => calInCall = 0

\* C10 witness: the barometer's second completed enable() has loaded the
\* calibration a second time.
C10_Witness ==
    /\ kind = "BarometerSensor"
    /\ nEnable = 2 /\ firstEnable = "ok"
    /\ lastCall = "enable" /\ drvRaised = "none"
    /\ calInCall = 1 /\ calLoads = 2

====
